---- MODULE Spec2Model ----
(***************************************************************************)
(* Model of gpublog-demo/backend/model.py: the text preprocessor, the      *)
(* masked loss, one teacher-forced training step, the epoch loop with its  *)
(* checkpoints, greedy inference and the retrain-and-notify service loop.  *)
(*                                                                         *)
(* Strings are sequences of characters.  A character is written as a       *)
(* one-element name: "a", " ", ".", and the non-ASCII ones by name         *)
(* ("INVQ" is the inverted question mark, "E_ACUTE" is e with an acute     *)
(* accent, "ACUTE" is the combining acute accent U+0301, "TAB", "QUOTE").  *)
(* Floating point numbers are NaN or a reduced fraction.                   *)
(***************************************************************************)
EXTENDS Integers, Sequences, FiniteSets, TLC

VARIABLES
  \* preprocess_sentence
  pre_pc, w_raw, w_once, w_twice, w_body,
  \* loss_function
  loss_pc, real, unmasked, loss_, loss_ret,
  \* TranslatorModel.train_step
  st_pc, targ, t, dec_input, dec_inputs_used, predicted, loss, batch_loss,
  grad_target, apply_count,
  \* TranslatorModel.translate and TranslatorModel.evaluate
  ev_pc, raw_sentence, sentence, inputs, max_length_targ, enc_calls, dec_calls,
  predicted_ids, result, ev_dec_input, returned,
  \* TranslatorModel.train and the service loop of __main__
  pc, in_main, argv_kind, argv_val, epochs, N_train, epoch, batch, enc_hidden,
  step_hidden, step_args, steps_begun, steps_ended, epoch_steps, save_log,
  unsaved, trains_since_notify

preVars == <<pre_pc, w_raw, w_once, w_twice, w_body>>
lossVars == <<loss_pc, real, unmasked, loss_, loss_ret>>
stepVars ==
  <<st_pc, targ, t, dec_input, dec_inputs_used, predicted, loss, batch_loss,
    grad_target, apply_count>>
evalVars ==
  <<ev_pc, raw_sentence, sentence, inputs, max_length_targ, enc_calls, dec_calls,
    predicted_ids, result, ev_dec_input, returned>>
trainVars ==
  <<pc, in_main, argv_kind, argv_val, epochs, N_train, epoch, batch, enc_hidden,
    step_hidden, step_args, steps_begun, steps_ended, epoch_steps, save_log,
    unsaved, trains_since_notify>>

vars == <<preVars, lossVars, stepVars, evalVars, trainVars>>

\* Each specification below runs one part of the program; the variables of the
\* other parts stay at these values.
PreIdle ==
  /\ pre_pc = "idle"
  /\ w_raw = <<>>
  /\ w_once = <<>>
  /\ w_twice = <<>>
  /\ w_body = <<>>

LossIdle ==
  /\ loss_pc = "idle"
  /\ real = <<>>
  /\ unmasked = <<>>
  /\ loss_ = <<>>
  /\ loss_ret = 0

StepIdle ==
  /\ st_pc = "idle"
  /\ targ = <<>>
  /\ t = 0
  /\ dec_input = <<>>
  /\ dec_inputs_used = <<>>
  /\ predicted = <<>>
  /\ loss = 0
  /\ batch_loss = 0
  /\ grad_target = 0
  /\ apply_count = 0

EvalIdle ==
  /\ ev_pc = "idle"
  /\ raw_sentence = <<>>
  /\ sentence = <<>>
  /\ inputs = <<>>
  /\ max_length_targ = 0
  /\ enc_calls = 0
  /\ dec_calls = 0
  /\ predicted_ids = <<>>
  /\ result = <<>>
  /\ ev_dec_input = 0
  /\ returned = <<>>

TrainIdle ==
  /\ pc = "idle"
  /\ in_main = FALSE
  /\ argv_kind = "absent"
  /\ argv_val = 0
  /\ epochs = 0
  /\ N_train = 0
  /\ epoch = 0
  /\ batch = 0
  /\ enc_hidden = "none"
  /\ step_hidden = "none"
  /\ step_args = {}
  /\ steps_begun = 0
  /\ steps_ended = 0
  /\ epoch_steps = <<>>
  /\ save_log = <<>>
  /\ unsaved = 0
  /\ trains_since_notify = 0

OthersOfPre == <<lossVars, stepVars, evalVars, trainVars>>
OthersOfLoss == <<preVars, stepVars, evalVars, trainVars>>
OthersOfStep == <<preVars, lossVars, evalVars, trainVars>>
OthersOfEval == <<preVars, lossVars, stepVars, trainVars>>
OthersOfTrain == <<preVars, lossVars, stepVars, evalVars>>

\* ---------------------------------------------------------------- bounds
\* longest raw sentence given to preprocess_sentence
MaxRawLen == 3
\* examples per batch in the tensor-level models (the program's batches hold
\* BATCH_SIZE examples; the tensor operations are the same at any width)
BatchWidth == 2
\* widest target tensor (targ.shape[1]) given to train_step
MaxT == 3
\* width of the input tensor (max_length_inp) the model was trained with
MaxLengthInp == 4
\* largest epoch count given to train when it is called directly
MaxEpochs == 4
\* largest training set (len(input_tensor_train))
MaxTrain == 130
\* largest epoch count given on the command line
MaxArgEpochs == 3

\* ------------------------------------------------------- string helpers
Strings(A, n) == UNION {[1..k -> A] : k \in 0..n}

AsciiLetters == {"a", "b", "d", "e", "n", "r", "s", "t", "A"}
Punctuation == {"?", ".", "!", ",", "INVQ"}
Whitespace == {" ", "TAB"}

\* str.lower(), character by character
LowerChar(c) == IF c = "A" THEN "a" ELSE c

lower(w) == [i \in 1..Len(w) |-> LowerChar(w[i])]

RECURSIVE lstrip(_)
lstrip(w) ==
  IF w = <<>> THEN <<>>
  ELSE IF Head(w) \in Whitespace THEN lstrip(Tail(w)) ELSE w

RECURSIVE rstrip(_)
rstrip(w) ==
  IF w = <<>> THEN <<>>
  ELSE IF w[Len(w)] \in Whitespace THEN rstrip(SubSeq(w, 1, Len(w) - 1)) ELSE w

\* str.strip()
strip(w) == rstrip(lstrip(w))

\* unicodedata.normalize('NFD', c): the canonical decomposition of one character
NFD(c) == IF c = "E_ACUTE" THEN <<"e", "ACUTE">> ELSE <<c>>

\* unicodedata.category(c) != 'Mn'
IsMn(c) == c = "ACUTE"

RECURSIVE DropMn(_)
DropMn(w) ==
  IF w = <<>> THEN <<>>
  ELSE IF IsMn(Head(w)) THEN DropMn(Tail(w)) ELSE <<Head(w)>> \o DropMn(Tail(w))

RECURSIVE NFDAll(_)
NFDAll(w) == IF w = <<>> THEN <<>> ELSE NFD(Head(w)) \o NFDAll(Tail(w))

unicode_to_ascii(w) == DropMn(NFDAll(w))

\* re.sub(r"([?.!,INVQ])", r" \1 ", w)
RECURSIVE PadPunctuation(_)
PadPunctuation(w) ==
  IF w = <<>> THEN <<>>
  ELSE IF Head(w) \in Punctuation
       THEN <<" ", Head(w), " ">> \o PadPunctuation(Tail(w))
       ELSE <<Head(w)>> \o PadPunctuation(Tail(w))

\* re.sub(Class+, " ", w): every maximal run of characters of Class becomes one space
RECURSIVE SubRuns(_, _)
SubRuns(w, Class) ==
  IF w = <<>> THEN <<>>
  ELSE IF Head(w) \in Class
       THEN IF Len(w) > 1 /\ w[2] \in Class
            THEN SubRuns(Tail(w), Class)
            ELSE <<" ">> \o SubRuns(Tail(w), Class)
       ELSE <<Head(w)>> \o SubRuns(Tail(w), Class)

\* re.sub(Class, " ", w) without the +: every character of Class becomes a space
SubEach(w, Class) == [i \in 1..Len(w) |-> IF w[i] \in Class THEN " " ELSE w[i]]

AllChars ==
  AsciiLetters \cup Punctuation \cup Whitespace
    \cup {"E_ACUTE", "ACUTE", "QUOTE", "<", ">", "1"}

\* re.sub(r'[" "]+', " ", w): the class holds the double quote and the space
CollapseSpaces(w) == SubRuns(w, {"QUOTE", " "})

CollapseNonAlpha_each(w) == SubEach(w, AllChars \ (AsciiLetters \cup Punctuation))

\* re.sub(r"[^a-zA-Z?.!,INVQ]+", " ", w)
CollapseNonAlpha(w) == SubRuns(w, AllChars \ (AsciiLetters \cup Punctuation))

StartMarker == <<"<", "s", "t", "a", "r", "t", ">">>
EndMarker == <<"<", "e", "n", "d", ">">>

\* '<start> ' + w + ' <end>'
AddMarkers(w) == StartMarker \o <<" ">> \o w \o <<" ">> \o EndMarker

\* the sentence between the markers, as computed before they are added
Normalize(w) ==
  strip(CollapseNonAlpha(CollapseSpaces(PadPunctuation(
    unicode_to_ascii(strip(lower(w)))))))

preprocess_sentence(w) == AddMarkers(Normalize(w))

\* --------------------------------------------- preprocess_sentence runs
PreAlphabet == {"a", "A", "E_ACUTE", " ", ".", "INVQ", "<", "1", "QUOTE", "TAB"}

\* the text an output of preprocess_sentence carries between its markers
Body(w) == SubSeq(w, Len(StartMarker) + 2, Len(w) - Len(EndMarker) - 1)

PreStart ==
  /\ pre_pc = "raw"
  /\ w_raw \in Strings(PreAlphabet, MaxRawLen)
  /\ w_once = <<>>
  /\ w_twice = <<>>
  /\ w_body = <<>>

PreprocessOnce ==
  /\ pre_pc = "raw"
  /\ w_once' = preprocess_sentence(w_raw)
  /\ pre_pc' = "once"
  /\ UNCHANGED <<w_raw, w_twice, w_body>>
  /\ UNCHANGED OthersOfPre

\* a second pass over the whole output, and one over the text between the markers
PreprocessAgain ==
  /\ pre_pc = "once"
  /\ w_twice' = preprocess_sentence(w_once)
  /\ w_body' = preprocess_sentence(Body(w_once))
  /\ pre_pc' = "twice"
  /\ UNCHANGED <<w_raw, w_once>>
  /\ UNCHANGED OthersOfPre

InitPre == PreStart /\ LossIdle /\ StepIdle /\ EvalIdle /\ TrainIdle

NextPre == PreprocessOnce \/ PreprocessAgain

SpecPre == InitPre /\ [][NextPre]_vars

\* C4 (as stated): preprocess_sentence(preprocess_sentence(s)) equals
\* preprocess_sentence(s) for every raw sentence s.
C4_Idempotent == pre_pc = "twice" => w_twice = w_once

\* C4 (amended): the second pass turns the markers of the first into the words
\* "start" and "end" and wraps the result again; what is idempotent is the
\* text between the markers: preprocessing it again gives the first output.
C4_BodyIdempotent ==
  pre_pc = "twice" =>
    /\ w_body = w_once
    /\ w_twice = AddMarkers(strip(<<"s", "t", "a", "r", "t", " ">> \o
                   strip(Body(w_once) \o <<" ", "e", "n", "d">>)))
    /\ w_twice # w_once

C4_Witness ==
  /\ pre_pc = "twice"
  /\ w_raw = <<"A", ".", "1">>
  /\ w_once = AddMarkers(<<"a", " ", ".">>)
  /\ w_body = w_once

\* ------------------------------------------------- floating point values
NaN == [nan |-> TRUE, n |-> 0, d |-> 1]

RECURSIVE Gcd(_, _)
Gcd(a, b) == IF b = 0 THEN a ELSE Gcd(b, a % b)

\* the fraction n/d (n >= 0, d > 0) in lowest terms
Frac(n, d) == [nan |-> FALSE, n |-> n \div Gcd(n, d), d |-> d \div Gcd(n, d)]

F(n) == Frac(n, 1)

\* IEEE arithmetic: NaN in, NaN out (also NaN * 0)
FAdd(x, y) == IF x.nan \/ y.nan THEN NaN ELSE Frac(x.n * y.d + y.n * x.d, x.d * y.d)
FMul(x, y) == IF x.nan \/ y.nan THEN NaN ELSE Frac(x.n * y.n, x.d * y.d)
FDivInt(x, k) == IF x.nan THEN NaN ELSE Frac(x.n, x.d * k)

RECURSIVE FSum(_)
FSum(v) == IF v = <<>> THEN F(0) ELSE FAdd(Head(v), FSum(Tail(v)))

\* ------------------------------------------------- the target vocabulary
\* targ_lang_tokenizer.index_word: ids from 1, most frequent token first; every
\* target sentence carries both markers
targ_index_word == (1 :> "<start>") @@ (2 :> "<end>") @@ (3 :> "x")

targ_word_index(word) == CHOOSE i \in DOMAIN targ_index_word : targ_index_word[i] = word

vocab_tar_size == Cardinality(DOMAIN targ_index_word) + 1

\* the ids a row of logits ranges over, the padding id 0 included
TargIds == 0..(vocab_tar_size - 1)

\* --------------------------------------------------------- loss_function
\* what SparseCategoricalCrossentropy(reduction='none') can return for one
\* position: a non-negative number, or NaN when the logits are not finite
LossValues == {F(0), F(1), F(2), NaN}

Mask_none(r) == 1

\* tf.cast(tf.math.logical_not(tf.math.equal(real, 0)), loss_.dtype), one position
Mask(r) == IF r = 0 THEN 0 ELSE 1

\* loss_ *= mask
MaskedLoss(re, lo) == [b \in 1..Len(re) |-> FMul(lo[b], F(Mask(re[b])))]

\* tf.reduce_mean
reduce_mean(v) == FDivInt(FSum(v), Len(v))

loss_function(re, lo) == reduce_mean(MaskedLoss(re, lo))

LossStart ==
  /\ loss_pc = "call"
  /\ real \in [1..BatchWidth -> TargIds]
  /\ unmasked \in [1..BatchWidth -> LossValues]
  /\ loss_ = <<>>
  /\ loss_ret = F(0)

\* one call loss_function(real, pred); unmasked is loss_object(real, pred)
LossCall ==
  /\ loss_pc = "call"
  /\ loss_' = MaskedLoss(real, unmasked)
  /\ loss_ret' = loss_function(real, unmasked)
  /\ loss_pc' = "returned"
  /\ UNCHANGED <<real, unmasked>>
  /\ UNCHANGED OthersOfLoss

InitLoss == PreIdle /\ LossStart /\ StepIdle /\ EvalIdle /\ TrainIdle

NextLoss == LossCall

SpecLoss == InitLoss /\ [][NextLoss]_vars

\* the unmasked losses of the positions that hold a real token, zero elsewhere
NonPadOnly(re, lo) == [b \in 1..Len(re) |-> IF re[b] = 0 THEN F(0) ELSE lo[b]]

TargWords == {i \in DOMAIN targ_index_word : targ_index_word[i] \notin {"<start>", "<end>"}}

TargRows(T) ==
  {r \in [1..T -> TargIds] :
     /\ r[1] = targ_word_index("<start>")
     /\ \E e \in 2..T :
          /\ r[e] = targ_word_index("<end>")
          /\ \A i \in 2..(e - 1) : r[i] \in TargWords
          /\ \A i \in (e + 1)..T : r[i] = 0}

\* targ.shape[1]
Width(tg) == Len(tg[1])

\* targ[:, i], i counted from 0 as in the source
Column(tg, i) == [b \in 1..Len(tg) |-> tg[b][i + 1]]

\* what one decoder call can return for the loss of a position holding a token
StepLossValues == {F(1), NaN}

NextDecInput_predicted(tg, i, pred) == pred

\* dec_input = tf.expand_dims(targ[:, t], 1)
NextDecInput(tg, i, pred) == Column(tg, i)

GradientTarget_batch_loss(lo, bl) == bl

\* tape.gradient(loss, variables): the scalar that is differentiated
GradientTarget(lo, bl) == lo

StepStart ==
  /\ st_pc = "call"
  /\ \E T \in 2..MaxT : targ \in [1..BatchWidth -> TargRows(T)]
  /\ t = 0
  /\ dec_input = <<>>
  /\ dec_inputs_used = <<>>
  /\ predicted = <<>>
  /\ loss = F(0)
  /\ batch_loss = F(0)
  /\ grad_target = F(0)
  /\ apply_count = 0

\* loss = 0, the encoder call, and the first decoder input
StepEncode ==
  /\ st_pc = "call"
  /\ loss' = F(0)
  /\ dec_input' = [b \in 1..BatchWidth |-> targ_word_index("<start>")]
  /\ t' = 1
  /\ st_pc' = "loop"
  /\ UNCHANGED <<targ, dec_inputs_used, predicted, batch_loss, grad_target, apply_count>>
  /\ UNCHANGED OthersOfStep

\* one pass of "for t in range(1, targ.shape[1])": the decoder returns some
\* logits, of which pred is the argmax and lo the loss of each position
StepDecode ==
  /\ st_pc = "loop"
  /\ t < Width(targ)
  /\ \E pred \in [1..BatchWidth -> TargIds], lo \in [1..BatchWidth -> StepLossValues] :
       /\ dec_inputs_used' = Append(dec_inputs_used, dec_input)
       /\ predicted' = pred
       /\ loss' = FAdd(loss, loss_function(Column(targ, t), lo))
       /\ dec_input' = NextDecInput(targ, t, pred)
  /\ t' = t + 1
  /\ UNCHANGED <<st_pc, targ, batch_loss, grad_target, apply_count>>
  /\ UNCHANGED OthersOfStep

\* after the loop: batch_loss, the gradients, one optimizer update
StepApply ==
  /\ st_pc = "loop"
  /\ t = Width(targ)
  /\ batch_loss' = FDivInt(loss, Width(targ))
  /\ grad_target' = GradientTarget(loss, batch_loss')
  /\ apply_count' = apply_count + 1
  /\ st_pc' = "returned"
  /\ UNCHANGED <<targ, t, dec_input, dec_inputs_used, predicted, loss>>
  /\ UNCHANGED OthersOfStep

InitStep == PreIdle /\ LossIdle /\ StepStart /\ EvalIdle /\ TrainIdle

NextStep == StepEncode \/ StepDecode \/ StepApply

SpecStep == InitStep /\ [][NextStep]_vars

StartBroadcast == [b \in 1..BatchWidth |-> targ_word_index("<start>")]

\* C2: the first decoder call of train_step gets the start-marker id for every
\* example, and the call after target position t gets the true tokens targ[:, t],
\* whatever the decoder predicted at t.
C2_TeacherForcing ==
  /\ \A k \in 1..Len(dec_inputs_used) :
       dec_inputs_used[k] = (IF k = 1 THEN StartBroadcast ELSE Column(targ, k - 1))
  /\ st_pc = "loop" =>
       dec_input = (IF t = 1 THEN StartBroadcast ELSE Column(targ, t - 1))

\* after the first pass of a longer sequence: the argmax was wrong for every
\* example, and the input of the decoder call to come is the true tokens
C2_Witness ==
  /\ st_pc = "loop"
  /\ t = 2
  /\ t < Width(targ)
  /\ dec_inputs_used = <<StartBroadcast>>
  /\ \A b \in 1..BatchWidth : predicted[b] # targ[b][2] /\ dec_input[b] = targ[b][2]
  /\ \E b \in 1..BatchWidth : targ[b][2] \in TargWords

\* C7 (as stated): the scalar whose gradients are applied is batch_loss, the
\* accumulated loss divided by the sequence length, with one update per step.
C7_GradientOfBatchLoss ==
  st_pc = "returned" => grad_target = batch_loss /\ apply_count = 1

\* C7 (amended): the scalar that is differentiated is the loss accumulated over
\* the target timesteps, not divided; batch_loss, that sum divided by the
\* sequence length, is only returned; one optimizer update per step.
C7_GradientOfSummedLoss ==
  /\ apply_count = (IF st_pc = "returned" THEN 1 ELSE 0)
  /\ st_pc = "returned" =>
       /\ grad_target = loss
       /\ batch_loss = FDivInt(loss, Width(targ))
       /\ ~loss.nan => grad_target = FMul(batch_loss, F(Width(targ)))

C7_Witness ==
  /\ st_pc = "returned"
  /\ Width(targ) = 3
  /\ loss = F(2)
  /\ grad_target = F(2)
  /\ batch_loss = Frac(2, 3)
  /\ apply_count = 1

\* ------------------------- TranslatorModel.translate, TranslatorModel.evaluate
\* inp_lang_tokenizer.word_index: the tokens of the training sentences, ids from 1
InpWords == <<StartMarker, EndMarker, <<".">>, <<"a">>>>

InpVocab == {InpWords[i] : i \in 1..Len(InpWords)}

inp_word_index(tok) == CHOOSE i \in 1..Len(InpWords) : InpWords[i] = tok

\* sentence.split(' '): cut at every single space, empty pieces kept
RECURSIVE Split(_)
Split(w) ==
  IF \A i \in 1..Len(w) : w[i] # " " THEN <<w>>
  ELSE LET i == CHOOSE j \in 1..Len(w) : w[j] = " " /\ \A k \in 1..(j - 1) : w[k] # " "
       IN <<SubSeq(w, 1, i - 1)>> \o Split(SubSeq(w, i + 1, Len(w)))

\* pad_sequences([ids], maxlen, padding='post'): zeros after a short row, the
\* front cut off a long one (truncating defaults to 'pre')
pad_sequences(ids, maxlen) ==
  IF Len(ids) >= maxlen THEN SubSeq(ids, Len(ids) - maxlen + 1, Len(ids))
  ELSE ids \o [i \in 1..(maxlen - Len(ids)) |-> 0]

Catches_in_translate(fn, exc) == fn = "translate" /\ exc = "KeyError"

\* the except clauses of a function: evaluate and translate have no try statement
Catches(fn, exc) == FALSE

\* where control is after exc is raised inside evaluate, called by translate
AfterRaise(exc) ==
  IF Catches("evaluate", exc) \/ Catches("translate", exc) THEN "returned"
  ELSE "uncaught_" \o exc

StopsAt_never(word) == FALSE

\* if self.targ_lang_tokenizer.index_word[predicted_id] == '<end>': break
StopsAt(word) == word = "<end>"

\* for _ in range(self.max_length_targ)
DecodeLimit(m) == m

EvalAlphabet == {"a", "b", ".", " "}

EvalStart ==
  /\ ev_pc = "call"
  /\ raw_sentence \in Strings(EvalAlphabet, MaxRawLen)
  /\ max_length_targ \in 2..MaxT
  /\ sentence = <<>>
  /\ inputs = <<>>
  /\ enc_calls = 0
  /\ dec_calls = 0
  /\ predicted_ids = <<>>
  /\ result = <<>>
  /\ ev_dec_input = 0
  /\ returned = <<>>

\* translate calls evaluate: preprocessing and the lookup of every token's id
EvaluateLookup ==
  /\ ev_pc = "call"
  /\ sentence' = preprocess_sentence(raw_sentence)
  /\ LET toks == Split(sentence')
     IN IF \A i \in 1..Len(toks) : toks[i] \in InpVocab
        THEN /\ inputs' = pad_sequences([i \in 1..Len(toks) |-> inp_word_index(toks[i])],
                                        MaxLengthInp)
             /\ ev_pc' = "encode"
             /\ UNCHANGED returned
        ELSE /\ inputs' = inputs
             /\ ev_pc' = AfterRaise("KeyError")
             /\ returned' = <<>>
  /\ UNCHANGED <<raw_sentence, max_length_targ, enc_calls, dec_calls, predicted_ids,
                 result, ev_dec_input>>
  /\ UNCHANGED OthersOfEval

\* result = '', the encoder call, the first decoder input
EvaluateEncode ==
  /\ ev_pc = "encode"
  /\ enc_calls' = enc_calls + 1
  /\ result' = <<>>
  /\ ev_dec_input' = targ_word_index("<start>")
  /\ ev_pc' = "decode"
  /\ UNCHANGED <<raw_sentence, sentence, inputs, max_length_targ, dec_calls,
                 predicted_ids, returned>>
  /\ UNCHANGED OthersOfEval

\* one pass of the decoding loop; id is the argmax of the logits.  result holds
\* the tokens appended to the result string, each followed by a space there.
EvaluateDecode ==
  /\ ev_pc = "decode"
  /\ dec_calls < DecodeLimit(max_length_targ)
  /\ \E id \in TargIds :
       /\ dec_calls' = dec_calls + 1
       /\ predicted_ids' = Append(predicted_ids, id)
       /\ IF id \notin DOMAIN targ_index_word
          THEN /\ ev_pc' = AfterRaise("KeyError")
               /\ UNCHANGED <<result, ev_dec_input>>
          ELSE IF StopsAt(targ_index_word[id])
          THEN /\ ev_pc' = "return"
               /\ UNCHANGED <<result, ev_dec_input>>
          ELSE /\ result' = Append(result, targ_index_word[id])
               /\ ev_dec_input' = id
               /\ UNCHANGED ev_pc
  /\ UNCHANGED <<raw_sentence, sentence, inputs, max_length_targ, enc_calls, returned>>
  /\ UNCHANGED OthersOfEval

\* the loop has run max_length_targ times
EvaluateExhausted ==
  /\ ev_pc = "decode"
  /\ dec_calls >= DecodeLimit(max_length_targ)
  /\ ev_pc' = "return"
  /\ UNCHANGED <<raw_sentence, sentence, inputs, max_length_targ, enc_calls, dec_calls,
                 predicted_ids, result, ev_dec_input, returned>>
  /\ UNCHANGED OthersOfEval

\* evaluate returns (result, sentence); translate prints and returns result
TranslateReturn ==
  /\ ev_pc = "return"
  /\ returned' = result
  /\ ev_pc' = "returned"
  /\ UNCHANGED <<raw_sentence, sentence, inputs, max_length_targ, enc_calls, dec_calls,
                 predicted_ids, result, ev_dec_input>>
  /\ UNCHANGED OthersOfEval

InitEval == PreIdle /\ LossIdle /\ StepIdle /\ EvalStart /\ TrainIdle

NextEval ==
  EvaluateLookup \/ EvaluateEncode \/ EvaluateDecode \/ EvaluateExhausted
    \/ TranslateReturn

SpecEval == InitEval /\ [][NextEval]_vars

IsEnd(id) == id \in DOMAIN targ_index_word /\ targ_index_word[id] = "<end>"

\* C1: evaluate makes at most max_length_targ decoder calls and stops at the
\* first whose argmax is the end marker; the result holds, in order, the tokens
\* of the steps whose argmax was not the end marker, so never the end marker.
C1_GreedyTerminates ==
  /\ dec_calls <= max_length_targ
  /\ dec_calls = Len(predicted_ids)
  /\ \A i \in 1..Len(result) :
       /\ result[i] # "<end>"
       /\ ~IsEnd(predicted_ids[i])
       /\ result[i] = targ_index_word[predicted_ids[i]]
  /\ \A i \in 1..(Len(predicted_ids) - 1) : ~IsEnd(predicted_ids[i])
  /\ ev_pc = "decode" => Len(result) = dec_calls
  /\ ev_pc \in {"return", "returned"} =>
       IF IsEnd(predicted_ids[Len(predicted_ids)])
       THEN Len(result) = dec_calls - 1
       ELSE Len(result) = dec_calls /\ dec_calls = max_length_targ
  /\ ev_pc = "returned" => returned = result

C1_Witness ==
  /\ ev_pc = "returned"
  /\ max_length_targ = 3
  /\ predicted_ids = <<3, 2>>
  /\ returned = <<"x">>

UnseenToken(raw) ==
  LET toks == Split(preprocess_sentence(raw))
  IN \E i \in 1..Len(toks) : toks[i] \notin InpVocab

\* C6: when a token of the preprocessed sentence is not in the input vocabulary,
\* the lookup raises KeyError before any encoder or decoder call, nothing is
\* returned, and neither evaluate nor translate catches it.
C6_UnseenTokenRaises ==
  UnseenToken(raw_sentence) =>
    /\ ev_pc \in {"call", "uncaught_KeyError"}
    /\ enc_calls = 0
    /\ dec_calls = 0
    /\ returned = <<>>
    /\ result = <<>>

C6_Witness ==
  /\ ev_pc = "uncaught_KeyError"
  /\ raw_sentence = <<"a", " ", "b">>
  /\ sentence = AddMarkers(<<"a", " ", "b">>)
  /\ enc_calls = 0

\* ------------------------------------------------ TranslatorModel.train
BATCH_SIZE == 64

\* self.steps_per_epoch = len(input_tensor_train)//self.BATCH_SIZE
steps_per_epoch(n) == n \div BATCH_SIZE

\* dataset.batch(size, drop_remainder): the sizes of the batches of n examples
Batched(n, size, drop_remainder) ==
  [i \in 1..(n \div size) |-> size]
    \o (IF ~drop_remainder /\ n % size # 0 THEN <<n % size>> ELSE <<>>)

\* self.dataset = dataset.batch(self.BATCH_SIZE, drop_remainder=True)
Dataset(n) == Batched(n, BATCH_SIZE, TRUE)

\* dataset.take(k)
Take(ds, k) == SubSeq(ds, 1, IF k < Len(ds) THEN k ELSE Len(ds))

\* enumerate(self.dataset.take(self.steps_per_epoch))
EpochBatches(n) == Take(Dataset(n), steps_per_epoch(n))

\* Encoder.initialize_hidden_state: tf.zeros
initialize_hidden_state == "zeros"

\* the final states an encoder call can return
EncoderStates == {"zeros", "h"}

CallerHidden_carried(own, from_step) == from_step

\* train's enc_hidden after train_step returns: train_step returns batch_loss
\* only, and its own rebinding of enc_hidden is local to it
CallerHidden(own, from_step) == own

ShouldCheckpoint_every3(ep) == (ep + 1) % 3 = 0

ShouldCheckpoint_odd(ep) == ep % 2 = 0

\* if (epoch + 1) % 2 == 0
ShouldCheckpoint(ep) == (ep + 1) % 2 = 0

TrainStart ==
  /\ pc = "for_epoch"
  /\ in_main = FALSE
  /\ argv_kind = "absent"
  /\ argv_val = 0
  /\ epochs \in 0..MaxEpochs
  /\ N_train \in 1..MaxTrain
  /\ epoch = 0
  /\ batch = 0
  /\ enc_hidden = "none"
  /\ step_hidden = "none"
  /\ step_args = {}
  /\ steps_begun = 0
  /\ steps_ended = 0
  /\ epoch_steps = <<>>
  /\ save_log = <<>>
  /\ unsaved = 0
  /\ trains_since_notify = 0

\* the head of "for epoch in range(epochs)": a fresh zero state, total_loss = 0
TrainEpochBegin ==
  /\ pc = "for_epoch"
  /\ epoch < epochs
  /\ enc_hidden' = initialize_hidden_state
  /\ batch' = 0
  /\ step_args' = {}
  /\ steps_begun' = 0
  /\ steps_ended' = 0
  /\ pc' = "for_batch"
  /\ UNCHANGED <<in_main, argv_kind, argv_val, epochs, N_train, epoch, step_hidden,
                 epoch_steps, save_log, unsaved, trains_since_notify>>
  /\ UNCHANGED OthersOfTrain

\* self.train_step(inp, targ, enc_hidden) is entered with the next batch; inside,
\* the encoder call rebinds train_step's own enc_hidden
TrainStepCall ==
  /\ pc = "for_batch"
  /\ batch < Len(EpochBatches(N_train))
  /\ step_args' = step_args \cup
       {[enc_hidden |-> enc_hidden, size |-> EpochBatches(N_train)[batch + 1]]}
  /\ steps_begun' = steps_begun + 1
  /\ \E h \in EncoderStates : step_hidden' = h
  /\ pc' = "in_step"
  /\ UNCHANGED <<in_main, argv_kind, argv_val, epochs, N_train, epoch, batch, enc_hidden,
                 steps_ended, epoch_steps, save_log, unsaved, trains_since_notify>>
  /\ UNCHANGED OthersOfTrain

\* train_step has applied its optimizer update and returns batch_loss
TrainStepReturn ==
  /\ pc = "in_step"
  /\ unsaved' = unsaved + 1
  /\ steps_ended' = steps_ended + 1
  /\ enc_hidden' = CallerHidden(enc_hidden, step_hidden)
  /\ batch' = batch + 1
  /\ pc' = "for_batch"
  /\ UNCHANGED <<in_main, argv_kind, argv_val, epochs, N_train, epoch, step_hidden,
                 step_args, steps_begun, epoch_steps, save_log, trains_since_notify>>
  /\ UNCHANGED OthersOfTrain

\* after the batches of an epoch: the checkpoint, then the epoch's mean loss
\* total_loss / self.steps_per_epoch, which divides the integer 0 by 0 when
\* there is no full batch
TrainEpochEnd ==
  /\ pc = "for_batch"
  /\ batch >= Len(EpochBatches(N_train))
  /\ IF ShouldCheckpoint(epoch)
     THEN /\ save_log' = Append(save_log,
               [after_epoch |-> epoch + 1, steps |-> steps_ended, begun |-> steps_begun])
          /\ unsaved' = 0
     ELSE UNCHANGED <<save_log, unsaved>>
  /\ epoch_steps' = Append(epoch_steps, steps_ended)
  /\ IF steps_per_epoch(N_train) = 0
     THEN pc' = "uncaught_ZeroDivisionError" /\ UNCHANGED epoch
     ELSE pc' = "for_epoch" /\ epoch' = epoch + 1
  /\ UNCHANGED <<in_main, argv_kind, argv_val, epochs, N_train, batch, enc_hidden,
                 step_hidden, step_args, steps_begun, steps_ended, trains_since_notify>>
  /\ UNCHANGED OthersOfTrain

\* range(epochs) is used up: train returns, to the service loop or its caller
TrainReturn ==
  /\ pc = "for_epoch"
  /\ epoch >= epochs
  /\ pc' = (IF in_main THEN "notify" ELSE "returned")
  /\ UNCHANGED <<in_main, argv_kind, argv_val, epochs, N_train, epoch, batch, enc_hidden,
                 step_hidden, step_args, steps_begun, steps_ended, epoch_steps, save_log,
                 unsaved, trains_since_notify>>
  /\ UNCHANGED OthersOfTrain

InitTrain == PreIdle /\ LossIdle /\ StepIdle /\ EvalIdle /\ TrainStart

NextTrain ==
  TrainEpochBegin \/ TrainStepCall \/ TrainStepReturn \/ TrainEpochEnd \/ TrainReturn

SpecTrain == InitTrain /\ [][NextTrain]_vars

\* C5: in one call train(epochs) the i-th checkpoint is saved after epoch 2i,
\* when all the steps of that epoch have returned; none is saved inside an
\* epoch or after an odd one, and a call that returns has saved epochs div 2.
C5_CheckpointEverySecondEpoch ==
  /\ \A i \in 1..Len(save_log) :
       /\ save_log[i].after_epoch = 2 * i
       /\ save_log[i].steps = steps_per_epoch(N_train)
       /\ save_log[i].begun = save_log[i].steps
  /\ pc \in {"for_epoch", "for_batch", "in_step"} => Len(save_log) = epoch \div 2
  /\ pc = "returned" => Len(save_log) = epochs \div 2

C5_Witness ==
  /\ pc = "returned"
  /\ epochs = 3
  /\ N_train = 130
  /\ save_log = <<[after_epoch |-> 2, steps |-> 2, begun |-> 2]>>
  /\ epoch_steps = <<2, 2, 2>>

\* C9: every epoch runs N_train div BATCH_SIZE steps, each on a full batch, one
\* at a time, and each is handed the zero state made at the epoch's start.
C9_StepsPerEpoch ==
  /\ \A i \in 1..Len(epoch_steps) : epoch_steps[i] = N_train \div BATCH_SIZE
  /\ \A a \in step_args : a.enc_hidden = "zeros" /\ a.size = BATCH_SIZE
  /\ steps_begun - steps_ended = (IF pc = "in_step" THEN 1 ELSE 0)
  /\ steps_begun <= N_train \div BATCH_SIZE
  /\ pc \in {"for_batch", "in_step"} => enc_hidden = "zeros"

\* two epochs of two steps each over 130 examples (two are left out), after an
\* encoder call that returned a non-zero state
C9_Witness ==
  /\ N_train = 130
  /\ epoch_steps = <<2, 2>>
  /\ step_hidden = "h"
  /\ step_args = {[enc_hidden |-> "zeros", size |-> BATCH_SIZE]}
  /\ steps_ended = 2

\* ------------------------------------------------- the service loop, __main__
\* epochs = 10, assigned after the command line has been read
LoopEpochs == 10

EpochsForLoop_from_argv(kind, val) == IF kind = "int" THEN val ELSE LoopEpochs

\* the value of epochs when the while loop is entered: line 341 overwrites
\* whatever int(sys.argv[2]) assigned
EpochsForLoop(kind, val) == LoopEpochs

MainInit ==
  /\ pc = "main"
  /\ in_main = TRUE
  /\ argv_kind \in {"absent", "bad", "int"}
  /\ argv_val \in (IF argv_kind = "int" THEN 0..MaxArgEpochs ELSE {0})
  /\ epochs = 0
  /\ N_train \in 1..MaxTrain
  /\ epoch = 0
  /\ batch = 0
  /\ enc_hidden = "none"
  /\ step_hidden = "none"
  /\ step_args = {}
  /\ steps_begun = 0
  /\ steps_ended = 0
  /\ epoch_steps = <<>>
  /\ save_log = <<>>
  /\ unsaved = 0
  /\ trains_since_notify = 0

\* the command line is read (int() of a non-number raises ValueError), the model
\* is built and restored from the latest checkpoint, epochs is set
MainStart ==
  /\ pc = "main"
  /\ IF argv_kind = "bad"
     THEN pc' = "uncaught_ValueError" /\ UNCHANGED epochs
     ELSE pc' = "while" /\ epochs' = EpochsForLoop(argv_kind, argv_val)
  /\ UNCHANGED <<in_main, argv_kind, argv_val, N_train, epoch, batch, enc_hidden,
                 step_hidden, step_args, steps_begun, steps_ended, epoch_steps, save_log,
                 unsaved, trains_since_notify>>
  /\ UNCHANGED OthersOfTrain

\* while True: model.train(epochs) is called
MainTrain ==
  /\ pc = "while"
  /\ epoch' = 0
  /\ epoch_steps' = <<>>
  /\ save_log' = <<>>
  /\ trains_since_notify' = trains_since_notify + 1
  /\ pc' = "for_epoch"
  /\ UNCHANGED <<in_main, argv_kind, argv_val, epochs, N_train, batch, enc_hidden,
                 step_hidden, step_args, steps_begun, steps_ended, unsaved>>
  /\ UNCHANGED OthersOfTrain

\* requests.get(".../reload", params={'lang': lang}): an answer of any status
\* goes back to the head of the loop, a network failure raises
MainNotify ==
  /\ pc = "notify"
  /\ trains_since_notify' = 0
  /\ \E answered \in BOOLEAN :
       pc' = (IF answered THEN "while" ELSE "uncaught_ConnectionError")
  /\ UNCHANGED <<in_main, argv_kind, argv_val, epochs, N_train, epoch, batch, enc_hidden,
                 step_hidden, step_args, steps_begun, steps_ended, epoch_steps, save_log,
                 unsaved>>
  /\ UNCHANGED OthersOfTrain

InitMain == PreIdle /\ LossIdle /\ StepIdle /\ EvalIdle /\ MainInit

NextMain ==
  MainStart \/ MainTrain \/ MainNotify
    \/ TrainEpochBegin \/ TrainStepCall \/ TrainStepReturn \/ TrainEpochEnd \/ TrainReturn

SpecMain == InitMain /\ [][NextMain]_vars

InTrain == pc \in {"for_epoch", "for_batch", "in_step"}

C8_State ==
  /\ trains_since_notify \in {0, 1}
  /\ pc = "notify" =>
       /\ trains_since_notify = 1
       /\ epoch = 10
       /\ Len(epoch_steps) = 10
  /\ InTrain => trains_since_notify = 1 /\ epochs = 10
  /\ pc = "while" => trains_since_notify = 0

C8_Step ==
  /\ pc = "while" => pc' = "for_epoch"
  /\ (pc = "notify" /\ pc' # "uncaught_ConnectionError") => pc' = "while"
  /\ pc' = "notify" => (pc = "for_epoch" /\ epoch = 10)

\* C8: in the service loop a notification is sent only after one whole training
\* run since the previous one, every run has 10 epochs whatever the command line
\* said, and an answered notification leads back to training (the loop has no
\* exit).
C8_TrainThenNotify == []C8_State /\ [][C8_Step]_vars

\* a notification about to be sent after 10 epochs, with 3 asked for
C8_Witness ==
  /\ pc = "notify"
  /\ argv_kind = "int"
  /\ argv_val = 3
  /\ N_train = 130
  /\ epoch_steps = <<2, 2, 2, 2, 2, 2, 2, 2, 2, 2>>
  /\ trains_since_notify = 1

\* C10: when a notification is sent, a checkpoint has been saved and no
\* optimizer update has been applied since the latest save.
C10_NotifyAfterSave ==
  pc = "notify" => unsaved = 0 /\ Len(save_log) > 0

C10_Witness ==
  /\ pc = "notify"
  /\ N_train = 64
  /\ unsaved = 0
  /\ Len(save_log) = 5
  /\ save_log[5] = [after_epoch |-> 10, steps |-> 1, begun |-> 1]
====
